---- MODULE Spec2Model ----
(***************************************************************************)
(* State-machine model of src/joystick_visualizer.py: the Xbox-controller  *)
(* differential-drive robot controller (RobotController and __main__).     *)
(*                                                                         *)
(* Floats are fixed point.  Axis values, speed and turn are in hundredths  *)
(* (ONE = 1.0); duty cycles are the product of a clamped speed             *)
(* (hundredths) and MAX_SPEED (hundredths), i.e. in ten-thousandths, so    *)
(* that every product of the mixer is exact.                               *)
(*                                                                         *)
(* ev, out, space_n and buttons are history variables: the duty-cycle      *)
(* commands issued, the console messages printed and the inputs seen       *)
(* since the current tick began (the startup and shutdown commands are     *)
(* appended to the same record).  motor_time is the duration measured for  *)
(* the tick's send, in milliseconds.                                       *)
(*                                                                         *)
(* The angle is kept exact as the direction of (x, y): atan2 is one-to-one *)
(* on directions, and the angle 0.0 is the direction (1, 0).  The          *)
(* magnitude is the integer square root, in hundredths.                    *)
(*                                                                         *)
(* Spec follows the control and safety state through every handler; it     *)
(* draws the axis readings in the handler and leaves raw_x, raw_y and the  *)
(* latency state (the tuple telemetry) as constructed.  SpecSampler keeps  *)
(* the readings in raw_x and raw_y and runs update_joystick_state over a   *)
(* fine grid of them; SpecWindow follows the latency windows through the   *)
(* loop; SpecSummary applies log_latency_stats to window contents.         *)
(***************************************************************************)
EXTENDS Integers, Sequences, FiniteSets

VARIABLES pc, joystick, vesc1, vesc2, vesc_connected, emergency_stop,
          running, exc, x_axis, y_axis, speed, turn,
          left_motor_duty, right_motor_duty, command_counter, motor_timeouts,
          ev, out, space_n, buttons,
          raw_x, raw_y, magnitude, angle, motor_time,
          now, last_latency_log, joystick_read_times, motor_command_times,
          total_loop_times, motor_update_interval, avg_joystick_time,
          avg_motor_time, avg_loop_time, avg_update_rate, report, pushes

vars == << pc, joystick, vesc1, vesc2, vesc_connected, emergency_stop,
           running, exc, x_axis, y_axis, speed, turn,
           left_motor_duty, right_motor_duty, command_counter, motor_timeouts,
           ev, out, space_n, buttons,
           raw_x, raw_y, magnitude, angle, motor_time,
           now, last_latency_log, joystick_read_times, motor_command_times,
           total_loop_times, motor_update_interval, avg_joystick_time,
           avg_motor_time, avg_loop_time, avg_update_rate, report, pushes >>

(* The state Spec does not follow: the clock, the four latency windows,    *)
(* the displayed averages, the last report and the count of loop           *)
(* iterations measured.                                                    *)
telemetry == << now, last_latency_log, joystick_read_times,
                motor_command_times, total_loop_times, motor_update_interval,
                avg_joystick_time, avg_motor_time, avg_loop_time,
                avg_update_rate, report, pushes >>

(* The state the latency projections do not follow.                        *)
control == << joystick, vesc1, vesc2, vesc_connected, emergency_stop,
              running, x_axis, y_axis, speed, turn, left_motor_duty,
              right_motor_duty, ev, space_n, buttons,
              raw_x, raw_y, magnitude, angle, motor_time >>

----------------------------------------------------------------------------
(* Configuration constants of the program (hundredths).                    *)
ONE == 100
DEADZONE == 15
MAX_SPEED == 80
SPEED_MULTIPLIER == 100
TURN_SIGN == -1

(* Bounds of the model.                                                    *)
MaxEvents == 2
MaxCommands == 2
MaxTimeouts == 2
GridHalf == 10

(* Raw axis readings the joystick can return, in [-1, 1].                  *)
Axis == {-100, -10, 0, 50, 100}

(* A finer grid of readings, with the values on either side of the         *)
(* deadzone threshold.                                                     *)
FineAxis ==
    {(i * ONE) \div GridHalf : i \in -GridHalf..GridHalf}
        \cup {DEADZONE - 1, DEADZONE, DEADZONE + 1, 1 - DEADZONE, -DEADZONE, -DEADZONE - 1}

(* Ways a pair of set_duty_cycle calls (vesc1 then vesc2) can end: both    *)
(* return, the first raises, or the second raises.                         *)
Outcome == {"ok", "err1", "err2"}

(* Measured duration of a send against the 50 ms and 100 ms thresholds.    *)
Timing == {"fast", "slow", "critical"}

(* Durations of a send in milliseconds, one on each side of the            *)
(* thresholds, and the tests of lines 232 and 235.                         *)
SLOW_MS == 50
CRITICAL_MS == 100
SendTime == {10, 60, 120}
Classify_NeverCritical(ms) == IF ms > SLOW_MS THEN "slow" ELSE "fast"
Classify(ms) ==
    IF ms > CRITICAL_MS THEN "critical"
    ELSE IF ms > SLOW_MS THEN "slow"
    ELSE "fast"

(* Events pygame.event.get() can return that run() looks at.               *)
EventKind == {"QUIT", "ESCAPE", "SPACE"}

RECURSIVE SeqsUpTo(_, _)
SeqsUpTo(S, n) ==
    IF n = 0 THEN {<< >>}
    ELSE LET shorter == SeqsUpTo(S, n - 1)
         IN shorter \cup {Append(s, e) : s \in {t \in shorter : Len(t) = n - 1}, e \in S}

Abs(v) == IF v < 0 THEN -v ELSE v
Min(a, b) == IF a < b THEN a ELSE b
Max(a, b) == IF a > b THEN a ELSE b

RECURSIVE Gcd(_, _)
Gcd(a, b) == IF b = 0 THEN a ELSE Gcd(b, a % b)

(* math.sqrt on fixed-point squares: the root in hundredths, rounded down, *)
(* found by bisection between lo and hi.                                   *)
RECURSIVE SqrtBetween(_, _, _)
SqrtBetween(n, lo, hi) ==
    IF lo = hi THEN lo
    ELSE LET mid == (lo + hi + 1) \div 2
         IN IF mid * mid <= n THEN SqrtBetween(n, mid, hi)
            ELSE SqrtBetween(n, lo, mid - 1)

Sqrt(n) == SqrtBetween(n, 0, 2 * ONE)

(* math.atan2(y, x) as the direction of (x, y); atan2(0, 0) is 0.0.        *)
ZeroAngle == [dx |-> 1, dy |-> 0]
Atan2(y, x) ==
    IF x = 0 /\ y = 0 THEN ZeroAngle
    ELSE LET g == Gcd(Abs(x), Abs(y))
         IN [dx |-> x \div g, dy |-> y \div g]

----------------------------------------------------------------------------
(* One set_duty_cycle call as seen from outside: where it was made, the    *)
(* endpoint, the duty, the interlock state at the call, and whether the    *)
(* call returned (the endpoint received the duty) or raised.               *)
Cmd(site, ep, duty, stopped, ok) ==
    [site |-> site, ep |-> ep, duty |-> duty, estop |-> stopped, ok |-> ok]

(* vesc1.set_duty_cycle(d1); vesc2.set_duty_cycle(d2) inside one try.      *)
Sends(site, d1, d2, stopped, o) ==
    IF o = "ok"
    THEN << Cmd(site, 1, d1, stopped, TRUE), Cmd(site, 2, d2, stopped, TRUE) >>
    ELSE IF o = "err1"
    THEN << Cmd(site, 1, d1, stopped, FALSE) >>
    ELSE << Cmd(site, 1, d1, stopped, TRUE), Cmd(site, 2, d2, stopped, FALSE) >>

Deliver(cs) == ev' = ev \o cs

NoSend == UNCHANGED ev

----------------------------------------------------------------------------
Init ==
    /\ pc = "init_joystick"
    /\ joystick = FALSE
    /\ vesc1 = "none"
    /\ vesc2 = "none"
    /\ vesc_connected = FALSE
    /\ emergency_stop = FALSE
    /\ running = FALSE
    /\ exc = "none"
    /\ x_axis = 0
    /\ y_axis = 0
    /\ speed = 0
    /\ turn = 0
    /\ left_motor_duty = 0
    /\ right_motor_duty = 0
    /\ command_counter = 0
    /\ motor_timeouts = 0
    /\ ev = << >>
    /\ out = {}
    /\ space_n = 0
    /\ buttons = [a |-> FALSE, b |-> FALSE]
    /\ raw_x = 0
    /\ raw_y = 0
    /\ magnitude = 0
    /\ angle = ZeroAngle
    /\ motor_time = 0
    /\ now = 0
    /\ last_latency_log = 0
    /\ joystick_read_times = << >>
    /\ motor_command_times = << >>
    /\ total_loop_times = << >>
    /\ motor_update_interval = << >>
    /\ avg_joystick_time = 0
    /\ avg_motor_time = 0
    /\ avg_loop_time = 0
    /\ avg_update_rate = 0
    /\ report = << >>
    /\ pushes = 0

(* RobotController.init_joystick, called from __init__.                    *)
init_joystick ==
    /\ pc = "init_joystick"
    /\ \E joystick_count \in {0, 1} :
         /\ joystick' = (joystick_count # 0)
         /\ out' = IF joystick_count = 0 THEN {"No joystick connected!"}
                   ELSE {"Joystick connected"}
    /\ pc' = "init_vesc"
    /\ UNCHANGED << vesc1, vesc2, vesc_connected, emergency_stop, running, exc,
                    x_axis, y_axis, speed, turn, left_motor_duty,
                    right_motor_duty, command_counter, motor_timeouts,
                    ev, space_n, buttons,
                    raw_x, raw_y, magnitude, angle, motor_time,
                    telemetry >>

(* RobotController.init_vesc: open both ports, send the test zero; any     *)
(* exception leaves vesc_connected False.                                  *)
init_vesc ==
    /\ pc = "init_vesc"
    /\ \E c \in {"conn1_fail", "conn2_fail", "opened"}, o \in Outcome :
         IF c = "conn1_fail"
         THEN /\ o = "ok"
              /\ vesc1' = "none" /\ vesc2' = "none"
              /\ vesc_connected' = FALSE
              /\ out' = out \cup {"Failed to connect to VESC motors"}
              /\ NoSend
         ELSE IF c = "conn2_fail"
         THEN /\ o = "ok"
              /\ vesc1' = "open" /\ vesc2' = "none"
              /\ vesc_connected' = FALSE
              /\ out' = out \cup {"Failed to connect to VESC motors"}
              /\ NoSend
         ELSE /\ vesc1' = "open" /\ vesc2' = "open"
              /\ Deliver(Sends("init", 0, 0, emergency_stop, o))
              /\ vesc_connected' = (o = "ok")
              /\ out' = out \cup (IF o = "ok" THEN {"VESC motors connected"}
                                  ELSE {"Failed to connect to VESC motors"})
    /\ pc' = "run"
    /\ UNCHANGED << joystick, emergency_stop, running, exc, x_axis, y_axis,
                    speed, turn, left_motor_duty, right_motor_duty,
                    command_counter, motor_timeouts, space_n, buttons,
                    raw_x, raw_y, magnitude, angle, motor_time,
                    telemetry >>

----------------------------------------------------------------------------
(* Input Sampler: the per-axis deadzone of update_joystick_state.          *)
ApplyDeadzone_Off(raw) == raw
ApplyDeadzone(raw) == IF Abs(raw) < DEADZONE THEN 0 ELSE raw

Clamp_Missing(v) == v

Clamp(v) == Max(-ONE, Min(ONE, v))

DriveMixer_Renormalized(x, y, sign) ==
    LET s == (y * SPEED_MULTIPLIER) \div ONE
        t == (sign * x * SPEED_MULTIPLIER) \div ONE
        peak == Max(ONE, Max(Abs(s + t), Abs(s - t)))
    IN [speed |-> s,
        turn  |-> t,
        left  |-> ((s + t) * ONE * MAX_SPEED) \div peak,
        right |-> ((s - t) * ONE * MAX_SPEED) \div peak]

(* Drive Mixer: the arithmetic of calculate_and_send_motor_commands, with  *)
(* the sign of the turn term (the source negates x) as a parameter.        *)
DriveMixer(x, y, sign) ==
    LET s == (y * SPEED_MULTIPLIER) \div ONE
        t == (sign * x * SPEED_MULTIPLIER) \div ONE
    IN [speed |-> s,
        turn  |-> t,
        left  |-> Clamp(s + t) * MAX_SPEED,
        right |-> Clamp(s - t) * MAX_SPEED]

(* RobotController.run, up to the loop: no joystick, no loop (and no       *)
(* cleanup: run returns before the try block).                             *)
run_begin_NoCheck ==
    /\ pc = "run"
    /\ pc' = "events"
    /\ running' = TRUE
    /\ out' = {}
    /\ ev' = << >>
    /\ UNCHANGED << joystick, vesc1, vesc2, vesc_connected, emergency_stop, exc,
                    x_axis, y_axis, speed, turn, left_motor_duty,
                    right_motor_duty, command_counter, motor_timeouts,
                    space_n, buttons,
                    raw_x, raw_y, magnitude, angle, motor_time,
                    telemetry >>

run_begin ==
    /\ pc = "run"
    /\ IF ~joystick
       THEN /\ pc' = "exit"
            /\ out' = out \cup {"Cannot start - no joystick connected!"}
            /\ UNCHANGED running
       ELSE /\ pc' = "events"
            /\ running' = TRUE
            /\ out' = {}
    /\ ev' = IF joystick THEN << >> ELSE ev
    /\ UNCHANGED << joystick, vesc1, vesc2, vesc_connected, emergency_stop, exc,
                    x_axis, y_axis, speed, turn, left_motor_duty,
                    right_motor_duty, command_counter, motor_timeouts,
                    space_n, buttons,
                    raw_x, raw_y, magnitude, angle, motor_time,
                    telemetry >>

(* What a Space key-down assigns to emergency_stop.                        *)
OnSpace_Toggles(stopped) == ~stopped

OnSpace(stopped) == TRUE

(* The event loop of run(): QUIT and ESC clear running, Space sets the     *)
(* interlock.  s is the state the loop threads through the events.         *)
RECURSIVE HandleEvents(_, _)
HandleEvents(q, s) ==
    IF q = << >> THEN s
    ELSE LET e == Head(q)
             s1 == IF e = "QUIT" \/ e = "ESCAPE"
                   THEN [s EXCEPT !.running = FALSE]
                   ELSE [s EXCEPT !.estop = OnSpace(s.estop),
                                  !.spaces = s.spaces + 1,
                                  !.prints = s.prints \cup {"EMERGENCY STOP (Spacebar)"}]
         IN HandleEvents(Tail(q), s1)

run_handle_events ==
    /\ pc = "events"
    /\ \E q \in SeqsUpTo(EventKind, MaxEvents) :
         LET s == HandleEvents(q, [running |-> running, estop |-> emergency_stop,
                                   spaces |-> 0, prints |-> {}])
         IN /\ running' = s.running
            /\ emergency_stop' = s.estop
            /\ space_n' = s.spaces
            /\ out' = out \cup s.prints
    /\ pc' = "update"
    /\ UNCHANGED << joystick, vesc1, vesc2, vesc_connected, exc, x_axis, y_axis,
                    speed, turn, left_motor_duty, right_motor_duty,
                    command_counter, motor_timeouts, ev, buttons,
                    raw_x, raw_y, magnitude, angle, motor_time,
                    telemetry >>

(* The duty the per-tick send passes to set_duty_cycle: the interlock      *)
(* overrides the mixed duty with zero.                                     *)
TickDuty_IgnoresInterlock(stopped, duty) == duty

TickDuty(stopped, duty) == IF stopped THEN 0 ELSE duty

(* The except branch of the per-tick send counts the failure.              *)
TimeoutsAfterError_NotCounted(n) == n

TimeoutsAfterError(n) == n + 1

(* RobotController.calculate_and_send_motor_commands on the sample (x, y); *)
(* o is how the two set_duty_cycle calls end, t the measured send time.    *)
(* Lines 189-202 run whatever the interlock says: what the tick stores in  *)
(* speed, turn and the two duties is the mixer's result.                   *)
Mixed_SkippedWhenStopped(stopped, m) ==
    IF stopped THEN [speed |-> 0, turn |-> 0, left |-> 0, right |-> 0] ELSE m
Mixed(stopped, m) == m

calculate_and_send_motor_commands(x, y, o, ms) ==
    LET m == Mixed(emergency_stop, DriveMixer(x, y, TURN_SIGN))
        t == Classify(ms)
        d1 == TickDuty(emergency_stop, m.left)
        d2 == TickDuty(emergency_stop, m.right)
    IN /\ speed' = m.speed
       /\ turn' = m.turn
       /\ left_motor_duty' = m.left
       /\ right_motor_duty' = m.right
       /\ IF vesc_connected
          THEN /\ Deliver(Sends("tick", d1, d2, emergency_stop, o))
               /\ IF o = "ok"
                  THEN /\ command_counter < MaxCommands
                       /\ command_counter' = command_counter + 1
                       /\ motor_time' = ms
                       /\ IF t = "critical"
                          THEN /\ motor_timeouts < MaxTimeouts
                               /\ motor_timeouts' = motor_timeouts + 1
                          ELSE UNCHANGED motor_timeouts
                       /\ out' = out \cup
                            (IF t = "fast" THEN {}
                             ELSE IF t = "slow" THEN {"Slow motor command"}
                             ELSE {"Slow motor command", "CRITICAL: Motor command took"})
                  ELSE /\ t = "fast"
                       /\ motor_timeouts < MaxTimeouts
                       /\ motor_timeouts' = TimeoutsAfterError(motor_timeouts)
                       /\ out' = out \cup {"Motor control error"}
                       /\ UNCHANGED << command_counter, motor_time >>
          ELSE /\ o = "ok" /\ t = "fast"
               /\ NoSend
               /\ UNCHANGED << command_counter, motor_timeouts, out, motor_time >>

(* Lines 171-172: the magnitude is the root capped at 1.0.                 *)
ClampMagnitude_Uncapped(m) == m
ClampMagnitude(m) == Min(ONE, m)

(* Lines 157-177: the deadzone on each axis, then magnitude and angle of   *)
(* the values after the deadzone.                                          *)
JoystickSample(rx, ry) ==
    LET x == ApplyDeadzone(rx)
        y == ApplyDeadzone(ry)
        m == ClampMagnitude(Sqrt(x * x + y * y))
    IN [x |-> x, y |-> y, magnitude |-> m,
        angle |-> IF m > 0 THEN Atan2(y, x) ELSE ZeroAngle]

(* The assignments of update_joystick_state for one reading, followed by   *)
(* its call of calculate_and_send_motor_commands.                          *)
StoreSample(j, o, ms) ==
    /\ x_axis' = j.x
    /\ y_axis' = j.y
    /\ magnitude' = j.magnitude
    /\ angle' = j.angle
    /\ calculate_and_send_motor_commands(j.x, j.y, o, ms)

(* RobotController.update_joystick_state: sample, deadzone, then mix and   *)
(* send.                                                                   *)
update_joystick_state ==
    /\ pc = "update"
    /\ joystick
    /\ \E rx \in Axis, ry \in Axis :
         LET j == JoystickSample(rx, ry)
         IN \E o \in Outcome, ms \in SendTime : StoreSample(j, o, ms)
    /\ pc' = "buttons"
    /\ UNCHANGED << joystick, vesc1, vesc2, vesc_connected, emergency_stop,
                    running, exc, space_n, buttons, raw_x, raw_y, telemetry >>

(* The B branch of handle_buttons acts only when the interlock is Armed.   *)
Activate(b, stopped) == b /\ ~stopped

(* The A branch of handle_buttons releases only a Stopped interlock.       *)
Release_WithoutButton(a, stopped) == stopped

Release(a, stopped) == a /\ stopped

(* RobotController.handle_buttons: a is button 0 (A), b is button 1 (B);   *)
(* o is how the immediate stop send ends (the bare except swallows it).    *)
handle_buttons ==
    /\ pc = "buttons"
    /\ joystick
    /\ \E a \in BOOLEAN, b \in BOOLEAN, o \in Outcome :
         LET activate == Activate(b, emergency_stop)
             stopped == emergency_stop \/ activate
             release == Release(a, stopped)
         IN /\ buttons' = [a |-> a, b |-> b]
            /\ IF activate /\ vesc_connected
               THEN Deliver(Sends("stop", 0, 0, TRUE, o))
               ELSE o = "ok" /\ NoSend
            /\ emergency_stop' = (stopped /\ ~release)
            /\ out' = out
                 \cup (IF activate THEN {"EMERGENCY STOP ACTIVATED!"} ELSE {})
                 \cup (IF activate /\ vesc_connected /\ o = "ok"
                       THEN {"Stop command sent"} ELSE {})
                 \cup (IF release THEN {"Emergency stop RELEASED"} ELSE {})
    /\ pc' = "log"
    /\ UNCHANGED << joystick, vesc1, vesc2, vesc_connected, running, exc,
                    x_axis, y_axis, speed, turn, left_motor_duty,
                    right_motor_duty, command_counter, motor_timeouts,
                    space_n,
                    raw_x, raw_y, magnitude, angle, motor_time,
                    telemetry >>

(* RobotController.log_latency_stats: due is whether LATENCY_LOG_INTERVAL  *)
(* has elapsed since the last report.                                      *)
log_latency_stats ==
    /\ pc = "log"
    /\ \E due \in BOOLEAN :
         out' = IF due
                THEN out \cup {"Latency Report"}
                         \cup (IF motor_timeouts > 0 THEN {"Motor timeouts"} ELSE {})
                ELSE out
    /\ pc' = "draw"
    /\ UNCHANGED << joystick, vesc1, vesc2, vesc_connected, emergency_stop,
                    running, exc, x_axis, y_axis, speed, turn, left_motor_duty,
                    right_motor_duty, command_counter, motor_timeouts,
                    ev, space_n, buttons,
                    raw_x, raw_y, magnitude, angle, motor_time,
                    telemetry >>

(* The rest of the loop body (drawing, flip, loop time, clock.tick) and    *)
(* the while test: the next tick begins, or the loop ends.                 *)
run_loop_tail ==
    /\ pc = "draw"
    /\ IF running
       THEN /\ pc' = "events"
            /\ ev' = << >>
            /\ out' = {}
            /\ space_n' = 0
            /\ buttons' = [a |-> FALSE, b |-> FALSE]
            /\ motor_time' = 0
       ELSE /\ pc' = "finally"
            /\ UNCHANGED << ev, out, space_n, buttons, motor_time >>
    /\ UNCHANGED << joystick, vesc1, vesc2, vesc_connected, emergency_stop,
                    running, exc, x_axis, y_axis, speed, turn, left_motor_duty,
                    right_motor_duty, command_counter, motor_timeouts,
                    raw_x, raw_y, magnitude, angle, telemetry >>

InLoop == pc \in {"events", "update", "buttons", "log", "draw"}

(* Ctrl-C while the loop runs: except KeyboardInterrupt, then finally.     *)
run_keyboard_interrupt ==
    /\ InLoop
    /\ exc = "none"
    /\ exc' = "KeyboardInterrupt"
    /\ pc' = "finally"
    /\ out' = out \cup {"Keyboard interrupt received..."}
    /\ UNCHANGED << joystick, vesc1, vesc2, vesc_connected, emergency_stop,
                    running, x_axis, y_axis, speed, turn, left_motor_duty,
                    right_motor_duty, command_counter, motor_timeouts,
                    ev, space_n, buttons,
                    raw_x, raw_y, magnitude, angle, motor_time,
                    telemetry >>

(* An Exception (pygame.error) raised by pygame.event.get() at the top of  *)
(* a tick: run() has no handler for it, so finally runs and it propagates  *)
(* to __main__.                                                            *)
run_exception ==
    /\ pc = "events"
    /\ exc = "none"
    /\ exc' = "Exception"
    /\ pc' = "finally"
    /\ UNCHANGED << joystick, vesc1, vesc2, vesc_connected, emergency_stop,
                    running, x_axis, y_axis, speed, turn, left_motor_duty,
                    right_motor_duty, command_counter, motor_timeouts,
                    ev, out, space_n, buttons,
                    raw_x, raw_y, magnitude, angle, motor_time,
                    telemetry >>

cleanup_Unguarded(o) ==
    /\ Deliver(Sends("cleanup", 0, 0, emergency_stop, o))
    /\ out' = out \cup {"Final Statistics", "Stopping motors..."}
    /\ UNCHANGED << vesc1, vesc2 >>

(* RobotController.cleanup: one try around zero to both, then close both.  *)
cleanup(o) ==
    IF vesc_connected
    THEN /\ Deliver(Sends("cleanup", 0, 0, emergency_stop, o))
         /\ IF o = "ok"
            THEN /\ vesc1' = "closed"
                 /\ vesc2' = "closed"
                 /\ out' = out \cup {"Final Statistics", "Stopping motors...",
                                     "Motors stopped", "Connections closed"}
            ELSE /\ UNCHANGED << vesc1, vesc2 >>
                 /\ out' = out \cup {"Final Statistics", "Stopping motors...",
                                     "Error during cleanup"}
    ELSE /\ o = "ok"
         /\ NoSend
         /\ out' = out \cup {"Final Statistics"}
         /\ UNCHANGED << vesc1, vesc2 >>

(* The finally block of run(): final statistics, cleanup(); then run()     *)
(* returns, or the pending Exception goes on to __main__.                  *)
run_finally ==
    /\ pc = "finally"
    /\ \E o \in Outcome : cleanup(o)
    /\ pc' = IF exc = "Exception" THEN "fatal" ELSE "exit"
    /\ UNCHANGED << joystick, vesc_connected, emergency_stop, running, exc,
                    x_axis, y_axis, speed, turn, left_motor_duty,
                    right_motor_duty, command_counter, motor_timeouts,
                    space_n, buttons,
                    raw_x, raw_y, magnitude, angle, motor_time,
                    telemetry >>

(* The except Exception handler of __main__: zero to both endpoints if     *)
(* vesc_connected, inside try / bare except.  A closed port raises.        *)
main_fatal ==
    /\ pc = "fatal"
    /\ \E o \in Outcome :
         /\ IF vesc_connected
            THEN /\ vesc1 = "closed" => o = "err1"
                 /\ Deliver(Sends("fatal", 0, 0, emergency_stop, o))
            ELSE o = "ok" /\ NoSend
    /\ out' = out \cup {"Fatal error"}
    /\ pc' = "exit"
    /\ UNCHANGED << joystick, vesc1, vesc2, vesc_connected, emergency_stop,
                    running, exc, x_axis, y_axis, speed, turn, left_motor_duty,
                    right_motor_duty, command_counter, motor_timeouts,
                    space_n, buttons,
                    raw_x, raw_y, magnitude, angle, motor_time,
                    telemetry >>

Next ==
    \/ init_joystick
    \/ init_vesc
    \/ run_begin
    \/ run_handle_events
    \/ update_joystick_state
    \/ handle_buttons
    \/ log_latency_stats
    \/ run_loop_tail
    \/ run_keyboard_interrupt
    \/ run_exception
    \/ run_finally
    \/ main_fatal

Spec == Init /\ [][Next]_vars

----------------------------------------------------------------------------
(* Vocabulary of the properties.                                           *)
Stopped == emergency_stop
TickPolled == pc \in {"log", "draw"}
StopInput == space_n > 0 \/ buttons.b
Received(cs, ep) == {i \in DOMAIN cs : cs[i].ep = ep /\ cs[i].ok}
LastReceived(cs, ep) ==
    LET got == Received(cs, ep)
    IN IF got = {} THEN "none"
       ELSE cs[CHOOSE i \in got : \A j \in got : j <= i].duty

(* C1: every duty-cycle command the per-tick send or the stop handler      *)
(* issues while the interlock is Stopped is exactly 0, whatever the stick  *)
(* sample and the mixer output are.                                        *)
C1_StoppedSendsZero ==
    \A i \in DOMAIN ev :
        (ev[i].estop /\ ev[i].site \in {"tick", "stop"}) => ev[i].duty = 0

(* A Stopped tick whose mixer output is not zero and whose send went out.  *)
C1_Witness ==
    /\ pc = "buttons"
    /\ Stopped
    /\ left_motor_duty # 0
    /\ right_motor_duty # 0
    /\ \E i \in DOMAIN ev, j \in DOMAIN ev :
         /\ ev[i].site = "tick" /\ ev[i].ep = 1 /\ ev[i].ok /\ ev[i].estop
         /\ ev[j].site = "tick" /\ ev[j].ep = 2 /\ ev[j].ok /\ ev[j].estop

(* C2: in a tick with a stop input (B held when the buttons are polled,    *)
(* or a Space key-down) and the link Connected, no endpoint receives a     *)
(* non-zero duty in that tick and the last duty each endpoint receives in  *)
(* the tick is zero.                                                       *)
C2_StopSameTick ==
    (TickPolled /\ vesc_connected /\ StopInput) =>
        /\ \A i \in DOMAIN ev : ev[i].ok => ev[i].duty = 0
        /\ LastReceived(ev, 1) = 0
        /\ LastReceived(ev, 2) = 0

(* C3: the interlock starts Armed, and a step that takes it from Stopped   *)
(* to Armed is handle_buttons seeing the A button.                         *)
C3_ReleaseOnlyByButton ==
    /\ ~emergency_stop
    /\ [][(emergency_stop /\ ~emergency_stop') =>
              (pc = "buttons" /\ pc' = "log" /\ buttons'.a)]_vars

(* The buttons were polled with A held in a tick that began Stopped (its   *)
(* per-tick send was the forced zero) and the interlock is Armed again.    *)
C3_Witness ==
    /\ pc = "log"
    /\ buttons.a
    /\ ~emergency_stop
    /\ \E i \in DOMAIN ev : ev[i].site = "tick" /\ ev[i].estop

(* C4: a session that ran the loop with the link Connected and ended by    *)
(* window close, ESC or KeyboardInterrupt has sent a zero duty to the left *)
(* and to the right endpoint in cleanup before closing the link, and that  *)
(* zero is the last duty each endpoint received.                           *)
C4_ShutdownZeroBoth ==
    (pc = "exit" /\ joystick /\ vesc_connected /\ exc # "Exception") =>
        /\ \A ep \in {1, 2} :
             /\ \E i \in Received(ev, ep) : ev[i].site = "cleanup" /\ ev[i].duty = 0
             /\ LastReceived(ev, ep) = 0
        /\ vesc1 = "closed"
        /\ vesc2 = "closed"

(* C5: the computed duties and every duty passed to set_duty_cycle lie in  *)
(* [-MAX_SPEED, MAX_SPEED].                                                *)
C5_DutyWithinMaxSpeed ==
    /\ Abs(left_motor_duty) <= MAX_SPEED * ONE
    /\ Abs(right_motor_duty) <= MAX_SPEED * ONE
    /\ \A i \in DOMAIN ev : Abs(ev[i].duty) <= MAX_SPEED * ONE

(* Full forward with full turn: speed + turn = 2.0 saturates one side,     *)
(* and the saturated duty went out to the endpoint.                        *)
C5_Witness ==
    /\ Abs(y_axis) = ONE
    /\ Abs(x_axis) = ONE
    /\ Abs(speed + turn) > ONE
    /\ Abs(left_motor_duty) = MAX_SPEED * ONE
    /\ \E i \in DOMAIN ev :
         ev[i].site = "tick" /\ ev[i].ok /\ Abs(ev[i].duty) = MAX_SPEED * ONE

TickFailed(cs) == \E i \in DOMAIN cs : cs[i].site = "tick" /\ ~cs[i].ok

(* C6: a tick whose duty-cycle send raises goes on to the button poll and  *)
(* the next tick; the timeout counter grows by exactly one, and the        *)
(* interlock, the connected flag and the loop flag are left as they were.  *)
C6_SendErrorCounted ==
    /\ [][(pc = "update" /\ TickFailed(ev')) =>
              /\ pc' = "buttons"
              /\ motor_timeouts' = motor_timeouts + 1
              /\ emergency_stop' = emergency_stop
              /\ vesc_connected' = vesc_connected
              /\ running' = running
              /\ exc' = "none"]_vars
    /\ [][(pc = "draw" /\ TickFailed(ev) /\ running /\ pc' # "finally") =>
              pc' = "events"]_vars

(* A tick is under way after a send that raised: the only count so far is  *)
(* that failure, the link is still Connected and the loop still runs.      *)
C6_Witness ==
    /\ pc = "update"
    /\ motor_timeouts = 1
    /\ command_counter = 0
    /\ vesc_connected
    /\ running
    /\ exc = "none"

(* Every message of the program that reports a failure.                   *)
ErrorMessages ==
    {"Motor control error", "Error during cleanup",
     "Failed to connect to VESC motors", "Fatal error"}

(* C7: a failed send at the per-tick send, the emergency-stop send or the  *)
(* shutdown send is logged before execution goes on.                       *)
C7_NoSilentFailure ==
    \A i \in DOMAIN ev :
        (~ev[i].ok /\ ev[i].site \in {"tick", "stop", "cleanup"}) =>
            ErrorMessages \cap out # {}

(* The mixer of the specification, written out: clamp to [-1, 1], then     *)
(* scale by the speed ceiling.                                             *)
Saturate(v) == IF v > ONE THEN ONE ELSE IF v < -ONE THEN -ONE ELSE v
SpecSpeed(y) == (y * SPEED_MULTIPLIER) \div ONE
SpecTurn(x, sign) == (sign * x * SPEED_MULTIPLIER) \div ONE
SpecLeft(x, y, sign) == Saturate(SpecSpeed(y) + SpecTurn(x, sign)) * MAX_SPEED
SpecRight(x, y, sign) == Saturate(SpecSpeed(y) - SpecTurn(x, sign)) * MAX_SPEED

(* C8: with the link Disconnected after startup the tick loop still runs   *)
(* (the stick is sampled and the drive command mixed every tick), no       *)
(* duty-cycle send is attempted by the per-tick path, the stop handler or  *)
(* shutdown, and the link stays Disconnected.                              *)
C8_DisconnectedNeverSends ==
    /\ []((pc \notin {"init_joystick", "init_vesc"} /\ ~vesc_connected) =>
            \A i \in DOMAIN ev : ev[i].site = "init")
    /\ [][(pc \notin {"init_joystick", "init_vesc"} /\ ~vesc_connected) =>
              ~vesc_connected']_vars
    /\ [][(pc = "update" /\ ~vesc_connected /\ exc' = "none") =>
              /\ pc' = "buttons"
              /\ left_motor_duty' = SpecLeft(x_axis', y_axis', TURN_SIGN)
              /\ right_motor_duty' = SpecRight(x_axis', y_axis', TURN_SIGN)]_vars

(* A session whose first port failed to open ran a tick with a non-zero    *)
(* drive command and the B button held, then quit through cleanup, and no  *)
(* command was ever issued.                                                *)
C8_Witness ==
    /\ pc = "exit"
    /\ joystick
    /\ ~vesc_connected
    /\ vesc1 = "none"
    /\ buttons.b
    /\ emergency_stop
    /\ left_motor_duty # 0
    /\ ev = << >>

(* C9: a stop input processed again (a further Space key-down, or B held   *)
(* with the interlock already Stopped) leaves the interlock Stopped and    *)
(* changes nothing else: any command it issues is zero, and the flags,     *)
(* duties and counters stay as they were.                                  *)
C9_StopIdempotent ==
    /\ [][(pc = "events" /\ pc' = "update" /\ space_n' > 0) =>
              /\ emergency_stop'
              /\ UNCHANGED << vesc_connected, left_motor_duty, right_motor_duty,
                              command_counter, motor_timeouts, ev >>]_vars
    /\ [][(pc = "buttons" /\ pc' = "log" /\ buttons'.b /\ ~buttons'.a) =>
              /\ emergency_stop'
              /\ emergency_stop =>
                    /\ \A i \in DOMAIN ev' : ev'[i].estop => ev'[i].duty = 0
                    /\ UNCHANGED << vesc_connected, running, left_motor_duty,
                                    right_motor_duty, command_counter,
                                    motor_timeouts >>]_vars

(* Two Space key-downs and then B held in one tick, whose per-tick send    *)
(* was the forced zero: three stop inputs in succession.                   *)
C9_Witness ==
    /\ pc = "log"
    /\ space_n >= 2
    /\ buttons.b
    /\ ~buttons.a
    /\ emergency_stop
    /\ \E i \in DOMAIN ev : ev[i].site = "tick" /\ ev[i].estop /\ ev[i].duty = 0

(* C10: the duties are the mixer formula of the current sample alone:      *)
(* speed = y * sensitivity, turn = sign * x * sensitivity, each side       *)
(* clamped to [-1, 1] on its own and scaled by maxSpeed; with turn sign    *)
(* +1, x = 0.5 and y = 0.5 give leftDuty = 0.8 and rightDuty = 0.0.        *)
C10_MixerFormula ==
    /\ speed = SpecSpeed(y_axis)
    /\ turn = SpecTurn(x_axis, TURN_SIGN)
    /\ left_motor_duty = SpecLeft(x_axis, y_axis, TURN_SIGN)
    /\ right_motor_duty = SpecRight(x_axis, y_axis, TURN_SIGN)
    /\ DriveMixer(50, 50, 1).left = 8000
    /\ DriveMixer(50, 50, 1).right = 0

(* The sample x = 0.5, y = 1.0 has been mixed in a tick that follows two   *)
(* ticks with other commands: one side saturates, the other does not.      *)
C10_Witness ==
    /\ pc = "buttons"
    /\ x_axis = 50
    /\ y_axis = 100
    /\ left_motor_duty = 4000
    /\ right_motor_duty = 8000
    /\ command_counter > 1
(***************************************************************************)
(* SpecSampler: update_joystick_state applied once to each pair of         *)
(* readings of a fine grid, from the constructed state with a joystick     *)
(* present and the link disconnected: the sample is mixed and nothing is   *)
(* sent.                                                                   *)
(***************************************************************************)

(* The constructed state of the latency fields (lines 76-90).              *)
TelemetryInit ==
    /\ now = 0
    /\ last_latency_log = 0
    /\ joystick_read_times = << >>
    /\ motor_command_times = << >>
    /\ total_loop_times = << >>
    /\ motor_update_interval = << >>
    /\ avg_joystick_time = 0
    /\ avg_motor_time = 0
    /\ avg_loop_time = 0
    /\ avg_update_rate = 0
    /\ report = << >>
    /\ pushes = 0

(* The constructed state of the control fields (lines 50-73), inside the   *)
(* loop with the given joystick and link.                                  *)
ControlInit(connected) ==
    /\ joystick = TRUE
    /\ vesc1 = IF connected THEN "open" ELSE "none"
    /\ vesc2 = IF connected THEN "open" ELSE "none"
    /\ vesc_connected = connected
    /\ emergency_stop = FALSE
    /\ running = TRUE
    /\ exc = "none"
    /\ x_axis = 0
    /\ y_axis = 0
    /\ speed = 0
    /\ turn = 0
    /\ left_motor_duty = 0
    /\ right_motor_duty = 0
    /\ command_counter = 0
    /\ motor_timeouts = 0
    /\ ev = << >>
    /\ out = {}
    /\ space_n = 0
    /\ buttons = [a |-> FALSE, b |-> FALSE]
    /\ raw_x = 0
    /\ raw_y = 0
    /\ magnitude = 0
    /\ angle = ZeroAngle
    /\ motor_time = 0

InitSampler ==
    /\ pc = "update"
    /\ ControlInit(FALSE)
    /\ TelemetryInit

(* update_joystick_state for readings of the fine grid; raw_x and raw_y    *)
(* keep the readings of lines 157-158 as they were before the deadzone.    *)
update_joystick_state_sampled ==
    /\ pc = "update"
    /\ joystick
    /\ \E rx \in FineAxis, ry \in FineAxis :
         /\ raw_x' = rx
         /\ raw_y' = ry
         /\ LET j == JoystickSample(rx, ry)
            IN \E o \in Outcome, ms \in SendTime : StoreSample(j, o, ms)
    /\ pc' = "sampled"
    /\ UNCHANGED << joystick, vesc1, vesc2, vesc_connected, emergency_stop,
                    running, exc, space_n, buttons, telemetry >>

NextSampler == update_joystick_state_sampled

SpecSampler == InitSampler /\ [][NextSampler]_vars

(* A reading the deadzone snaps to zero.                                   *)
InDeadzone(raw) == Abs(raw) < DEADZONE

(* C11: after every sample, each axis whose reading is below the deadzone  *)
(* in absolute value is exactly 0 and each other axis is the reading       *)
(* itself; magnitude and angle are those of the values after the deadzone; *)
(* and when both readings are below the deadzone the magnitude is 0, the   *)
(* angle is 0 and both duties are 0.                                       *)
C11_DeadzonePerAxis ==
    /\ x_axis = (IF InDeadzone(raw_x) THEN 0 ELSE raw_x)
    /\ y_axis = (IF InDeadzone(raw_y) THEN 0 ELSE raw_y)
    /\ magnitude * magnitude <= x_axis * x_axis + y_axis * y_axis
    /\ (magnitude > 0) => (angle = Atan2(y_axis, x_axis))
    /\ (InDeadzone(raw_x) /\ InDeadzone(raw_y)) =>
           /\ magnitude = 0
           /\ angle = ZeroAngle
           /\ left_motor_duty = 0
           /\ right_motor_duty = 0

(* Both readings non-zero and inside the deadzone, sampled.                *)
C11_Witness ==
    /\ raw_x = DEADZONE - 1
    /\ raw_y = 1 - DEADZONE
    /\ magnitude = 0
    /\ x_axis = 0

(* C17: after every sample the magnitude is between 0 and 1; it is exactly *)
(* 1 when x^2 + y^2 of the values after the deadzone exceeds 1 and the     *)
(* square root of x^2 + y^2 (to the hundredth) otherwise; and the angle is *)
(* 0 whenever the magnitude is 0.                                          *)
C17_MagnitudeClamped ==
    LET q == x_axis * x_axis + y_axis * y_axis
    IN /\ 0 <= magnitude
       /\ magnitude <= ONE
       /\ (q > ONE * ONE) => (magnitude = ONE)
       /\ (q <= ONE * ONE) =>
              /\ magnitude * magnitude <= q
              /\ q < (magnitude + 1) * (magnitude + 1)
       /\ (magnitude = 0) => (angle = ZeroAngle)

(* A sampled corner of the stick range, where x^2 + y^2 is 2.              *)
C17_Witness ==
    /\ pc = "sampled"
    /\ x_axis = ONE
    /\ y_axis = -ONE
    /\ magnitude = ONE

(***************************************************************************)
(* SpecWindow: the latency windows through the loop, link connected and    *)
(* every send succeeding.  The n-th iteration pushes the value n in place  *)
(* of its measured duration, so that a window's content shows which pushes *)
(* it holds and in what order.                                             *)
(***************************************************************************)

LATENCY_HISTORY_SIZE == 100
MaxPushes == 103

(* deque(maxlen = LATENCY_HISTORY_SIZE).append: once full, the oldest      *)
(* element is discarded to make room.                                      *)
DequeAppend_DropsNewest(d, v) ==
    IF Len(d) < LATENCY_HISTORY_SIZE THEN Append(d, v) ELSE d
DequeAppend(d, v) ==
    IF Len(d) < LATENCY_HISTORY_SIZE THEN Append(d, v) ELSE Append(Tail(d), v)

InitWindow ==
    /\ pc = "update"
    /\ ControlInit(TRUE)
    /\ TelemetryInit

(* Lines 180-181 of update_joystick_state.                                 *)
track_joystick_read ==
    /\ pc = "update"
    /\ pushes < MaxPushes
    /\ pushes' = pushes + 1
    /\ joystick_read_times' = DequeAppend(joystick_read_times, pushes + 1)
    /\ pc' = "send"
    /\ UNCHANGED << control, exc, command_counter, motor_timeouts, out, now,
                    last_latency_log, motor_command_times, total_loop_times,
                    motor_update_interval, avg_joystick_time, avg_motor_time,
                    avg_loop_time, avg_update_rate, report >>

(* Lines 217-226 of calculate_and_send_motor_commands after a send that    *)
(* returned.                                                               *)
track_motor_command ==
    /\ pc = "send"
    /\ vesc_connected
    /\ motor_command_times' = DequeAppend(motor_command_times, pushes)
    /\ motor_update_interval' = DequeAppend(motor_update_interval, pushes)
    /\ pc' = "draw"
    /\ UNCHANGED << control, exc, command_counter, motor_timeouts, out, now,
                    last_latency_log, joystick_read_times, total_loop_times,
                    avg_joystick_time, avg_motor_time, avg_loop_time,
                    avg_update_rate, report, pushes >>

(* Lines 577-578 of run.                                                   *)
track_loop_time ==
    /\ pc = "draw"
    /\ total_loop_times' = DequeAppend(total_loop_times, pushes)
    /\ pc' = "update"
    /\ UNCHANGED << control, exc, command_counter, motor_timeouts, out, now,
                    last_latency_log, joystick_read_times, motor_command_times,
                    motor_update_interval, avg_joystick_time, avg_motor_time,
                    avg_loop_time, avg_update_rate, report, pushes >>

NextWindow == track_joystick_read \/ track_motor_command \/ track_loop_time

SpecWindow == InitWindow /\ [][NextWindow]_vars

(* The most recent LATENCY_HISTORY_SIZE of n pushes, oldest first.         *)
MostRecent(n) ==
    LET k == Min(n, LATENCY_HISTORY_SIZE)
    IN [i \in 1..k |-> n - k + i]

(* Pushes made so far into the motor-command and total-loop windows.       *)
MotorPushes == IF pc = "send" THEN pushes - 1 ELSE pushes
LoopPushes == IF pc = "update" THEN pushes ELSE pushes - 1

(* C12: each of the joystick-read, motor-command and total-loop windows    *)
(* never holds more than LATENCY_HISTORY_SIZE values, and after n pushes   *)
(* holds exactly the most recent min(n, LATENCY_HISTORY_SIZE) of them in   *)
(* push order.                                                             *)
C12_WindowFifo ==
    /\ Len(joystick_read_times) <= LATENCY_HISTORY_SIZE
    /\ Len(motor_command_times) <= LATENCY_HISTORY_SIZE
    /\ Len(total_loop_times) <= LATENCY_HISTORY_SIZE
    /\ joystick_read_times = MostRecent(pushes)
    /\ motor_command_times = MostRecent(MotorPushes)
    /\ total_loop_times = MostRecent(LoopPushes)

(* Two pushes past the capacity: the two oldest values are gone.           *)
C12_Witness ==
    /\ pc = "update"
    /\ pushes = LATENCY_HISTORY_SIZE + 2
    /\ Len(total_loop_times) = LATENCY_HISTORY_SIZE
    /\ Head(total_loop_times) = pushes - LATENCY_HISTORY_SIZE + 1
    /\ Head(joystick_read_times) = pushes - LATENCY_HISTORY_SIZE + 1

(* The step of the tick that sends and measures the send.                  *)
SendReturned == pc = "update" /\ pc' = "buttons" /\ motor_time' > 0

(* C13 as stated: a send over the slow threshold is counted, and the count *)
(* is shown by the report.  The only warning count the program keeps and   *)
(* reports is motor_timeouts.                                              *)
C13_SlowWarningCounted ==
    [][(SendReturned /\ motor_time' > SLOW_MS)
          => motor_timeouts' > motor_timeouts]_vars

(* C13, amended: a send measured over 50 ms prints the slow warning; one   *)
(* over 100 ms also prints the critical warning and adds exactly one to    *)
(* motor_timeouts; the count never decreases, and every periodic report    *)
(* printed while it is positive shows it.                                  *)
C13_CriticalSendCounted ==
    /\ [](motor_time > SLOW_MS => "Slow motor command" \in out)
    /\ [](motor_time > CRITICAL_MS => "CRITICAL: Motor command took" \in out)
    /\ [][(SendReturned /\ motor_time' > CRITICAL_MS)
             => motor_timeouts' = motor_timeouts + 1]_vars
    /\ [][(SendReturned /\ motor_time' <= CRITICAL_MS)
             => motor_timeouts' = motor_timeouts]_vars
    /\ [][motor_timeouts' >= motor_timeouts]_vars
    /\ []("Latency Report" \in out
             => ("Motor timeouts" \in out <=> motor_timeouts > 0))

(* A tick whose send took 120 ms and whose report shows the timeout.       *)
C13_Witness ==
    /\ motor_time > CRITICAL_MS
    /\ motor_timeouts = 1
    /\ "Slow motor command" \in out
    /\ "CRITICAL: Motor command took" \in out
    /\ "Latency Report" \in out
    /\ "Motor timeouts" \in out

(***************************************************************************)
(* SpecSummary: log_latency_stats applied once to window contents, clock   *)
(* readings and counters drawn in the initial state.  Durations are in     *)
(* milliseconds; the averages in microseconds, rounded down; the rates in  *)
(* hertz, rounded down.                                                    *)
(***************************************************************************)

LATENCY_LOG_INTERVAL == 1000
MaxWindow == 2

(* Durations and intervals a window can hold, 0.0 among them.              *)
Duration == {0, 20}

(* Time since the last report when log_latency_stats reads the clock, on   *)
(* either side of the interval.                                            *)
ClockGap == {0, LATENCY_LOG_INTERVAL - 1, LATENCY_LOG_INTERVAL,
             LATENCY_LOG_INTERVAL + 500}

SeqsOfLen(S, n) == {w \in SeqsUpTo(S, n) : Len(w) = n}

(* In the k-th iteration log_latency_stats finds k joystick readings,      *)
(* k - 1 loop times, and one send time and one update interval for each    *)
(* send that returned so far.                                              *)
InitSummary ==
    /\ pc = "log"
    /\ \E c \in BOOLEAN : ControlInit(c)
    /\ \E k \in 1..MaxWindow :
         /\ pushes = k
         /\ joystick_read_times \in SeqsOfLen(Duration, k)
         /\ total_loop_times \in SeqsOfLen(Duration, k - 1)
         /\ \E n \in 0..(IF vesc_connected THEN k ELSE 0) :
              /\ motor_command_times \in SeqsOfLen(Duration, n)
              /\ motor_update_interval \in SeqsOfLen(Duration, n)
    /\ last_latency_log \in {0, LATENCY_LOG_INTERVAL}
    /\ \E g \in ClockGap : now = last_latency_log + g
    /\ avg_joystick_time = 0
    /\ avg_motor_time = 0
    /\ avg_loop_time = 0
    /\ avg_update_rate = 0
    /\ report = << >>

(* Line 273.                                                               *)
ReportDue_Always(t, last) == TRUE
ReportDue(t, last) == t - last >= LATENCY_LOG_INTERVAL

RECURSIVE SumSeq(_)
SumSeq(w) == IF w = << >> THEN 0 ELSE Head(w) + SumSeq(Tail(w))

RECURSIVE MaxSeq(_)
MaxSeq(w) == IF Len(w) = 1 THEN Head(w) ELSE Max(Head(w), MaxSeq(Tail(w)))

(* statistics.mean(w) * 1000 of a non-empty window, and max(w) * 1000.     *)
MeanTimes1000(w) == (SumSeq(w) * 1000) \div Len(w)
MaxTimes1000(w) == MaxSeq(w) * 1000

(* Lines 275-279, 281-285 and 287-296: mean and max of a window, 0 when it *)
(* is empty.                                                               *)
WindowAvg(w) == IF w # << >> THEN MeanTimes1000(w) ELSE 0
WindowMax(w) == IF w # << >> THEN MaxTimes1000(w) ELSE 0

(* Line 292: 1000 / avg_loop_time, guarded.                                *)
AvgFps(avg) == IF avg > 0 THEN 1000000 \div avg ELSE 0

(* Line 299 divides 1.0 by the mean of the intervals whenever the window   *)
(* is not empty: ZeroDivisionError when that mean is 0.                    *)
UpdateRateRaises(w) == w # << >> /\ SumSeq(w) = 0
UpdateRate(w) == IF w # << >> THEN (1000 * Len(w)) \div SumSeq(w) ELSE 0

(* RobotController.log_latency_stats.                                      *)
log_latency_stats_summary ==
    /\ pc = "log"
    /\ IF ~ReportDue(now, last_latency_log)
       THEN /\ pc' = "draw"
            /\ UNCHANGED << exc, out, avg_joystick_time, avg_motor_time,
                            avg_loop_time, avg_update_rate, report,
                            last_latency_log >>
       ELSE /\ avg_joystick_time' = WindowAvg(joystick_read_times)
            /\ avg_motor_time' = WindowAvg(motor_command_times)
            /\ avg_loop_time' = WindowAvg(total_loop_times)
            /\ IF UpdateRateRaises(motor_update_interval)
               THEN /\ exc' = "Exception"
                    /\ pc' = "finally"
                    /\ UNCHANGED << out, avg_update_rate, report,
                                    last_latency_log >>
               ELSE /\ avg_update_rate' = UpdateRate(motor_update_interval)
                    /\ report' =
                         << [commands |-> command_counter,
                             avg_joystick |-> avg_joystick_time',
                             max_joystick |-> WindowMax(joystick_read_times),
                             avg_motor |-> avg_motor_time',
                             max_motor |-> WindowMax(motor_command_times),
                             avg_loop |-> avg_loop_time',
                             max_loop |-> WindowMax(total_loop_times),
                             avg_fps |-> AvgFps(avg_loop_time'),
                             update_rate |-> avg_update_rate',
                             timeouts |-> motor_timeouts,
                             at |-> now] >>
                    /\ out' = out \cup {"Latency Report"}
                              \cup (IF motor_timeouts > 0
                                    THEN {"Motor timeouts"} ELSE {})
                    /\ last_latency_log' = now
                    /\ pc' = "draw"
                    /\ UNCHANGED exc
    /\ UNCHANGED << control, command_counter, motor_timeouts, now,
                    joystick_read_times, motor_command_times, total_loop_times,
                    motor_update_interval, pushes >>

NextSummary == log_latency_stats_summary

SpecSummary == InitSummary /\ [][NextSummary]_vars

(* The four rolling windows and the two counters.                          *)
windows == << joystick_read_times, motor_command_times, total_loop_times,
              motor_update_interval >>
counters == << command_counter, motor_timeouts >>

(* The call printed a report.                                              *)
ReportEmitted == report' # report

(* C14: a call of log_latency_stats leaves the four windows and the two    *)
(* counters as they are; a report is printed only when at least            *)
(* LATENCY_LOG_INTERVAL has passed since last_latency_log, and printing it *)
(* changes nothing but the displayed averages and last_latency_log, which  *)
(* becomes the clock reading; a call that is not due changes neither.      *)
C14_ReportFrameEffect ==
    /\ [][pc = "log" => UNCHANGED << windows, counters >>]_vars
    /\ [][ReportEmitted =>
             /\ now - last_latency_log >= LATENCY_LOG_INTERVAL
             /\ last_latency_log' = now
             /\ UNCHANGED << control, exc, now, pushes >>]_vars
    /\ [][(pc = "log" /\ now - last_latency_log < LATENCY_LOG_INTERVAL) =>
             /\ ~ReportEmitted
             /\ UNCHANGED << avg_joystick_time, avg_motor_time, avg_loop_time,
                             avg_update_rate, last_latency_log, out >>]_vars

(* A report printed over non-empty windows, which are still there.         *)
C14_Witness ==
    /\ pc = "draw"
    /\ report # << >>
    /\ last_latency_log = now
    /\ Len(joystick_read_times) = MaxWindow
    /\ motor_update_interval # << >>
    /\ avg_update_rate > 0

(* C15: a due call of log_latency_stats never raises: it reports 0 for the *)
(* mean and max of an empty window and prints the loop rate and the motor  *)
(* update rate whatever the windows hold.                                  *)
C15_SummaryNeverRaises ==
    /\ exc = "none"
    /\ (report # << >> /\ motor_command_times = << >>) =>
           (report[1].avg_motor = 0 /\ report[1].max_motor = 0)
    /\ (report # << >> /\ total_loop_times = << >>) =>
           (report[1].avg_loop = 0 /\ report[1].avg_fps = 0)

(* C16: when init_joystick found no device, run() returns before the loop: *)
(* the program is never inside a tick, the only commands ever sent are the *)
(* zero test commands of init_vesc, no exception is pending, and at exit   *)
(* the message of run() has been printed.                                  *)
C16_NoJoystickNoLoop ==
    (~joystick /\ pc # "init_joystick") =>
        /\ pc \in {"init_vesc", "run", "exit"}
        /\ \A i \in 1..Len(ev) : ev[i].site = "init" /\ ev[i].duty = 0
        /\ command_counter = 0
        /\ exc = "none"
        /\ "No joystick connected!" \in out
        /\ (pc = "exit") => ("Cannot start - no joystick connected!" \in out)

(* Exit without a joystick after the link came up and was tested.          *)
C16_Witness ==
    /\ pc = "exit"
    /\ ~joystick
    /\ vesc_connected
    /\ Received(ev, 1) # {}
    /\ "Cannot start - no joystick connected!" \in out

(* The commands the step appends to the tick's record.                     *)
NewCommands == {ev'[i] : i \in (Len(ev) + 1)..Len(ev')}

(* C18: in every tick taken while the interlock is Stopped the mixer runs  *)
(* on the tick's sample: speed, turn, left_motor_duty and right_motor_duty *)
(* take the mixed values, and only the duty handed to the endpoints is     *)
(* replaced by 0.                                                          *)
C18_MixerRunsWhileStopped ==
    [][(pc = "update" /\ Stopped) =>
          /\ speed' = SpecSpeed(y_axis')
          /\ turn' = SpecTurn(x_axis', TURN_SIGN)
          /\ left_motor_duty' = SpecLeft(x_axis', y_axis', TURN_SIGN)
          /\ right_motor_duty' = SpecRight(x_axis', y_axis', TURN_SIGN)
          /\ \A c \in NewCommands : c.site = "tick" /\ c.duty = 0]_vars

(* Stopped, stick at x = 0.5, y = 1.0: the duties hold 0.4 and 0.8 while   *)
(* both endpoints received 0.                                              *)
C18_Witness ==
    /\ pc = "buttons"
    /\ Stopped
    /\ vesc_connected
    /\ x_axis = 50
    /\ y_axis = ONE
    /\ left_motor_duty = 50 * MAX_SPEED
    /\ right_motor_duty = ONE * MAX_SPEED
    /\ LastReceived(ev, 1) = 0
    /\ LastReceived(ev, 2) = 0

(* C19: a tick that saw a stop input (Space key-down or B) together with   *)
(* the release input (A) ends Stopped, so that the next tick delivers 0.   *)
C19_StopBeatsRelease ==
    (TickPolled /\ StopInput /\ buttons.a) => Stopped

(* Send steps made with the link Connected.                                *)
ConnectedSites == {"tick", "stop", "cleanup"}
SentTo(site, ep) == {i \in DOMAIN ev : ev[i].site = site /\ ev[i].ep = ep}

(* C20: in each per-tick, stop or shutdown send step either both endpoints *)
(* receive their command or neither does, and a command issued to the left *)
(* endpoint is always followed by the one due to the right endpoint.       *)
C20_BothOrNeither ==
    \A site \in ConnectedSites :
        /\ (SentTo(site, 1) \cap Received(ev, 1) # {})
              <=> (SentTo(site, 2) \cap Received(ev, 2) # {})
        /\ (SentTo(site, 1) # {}) => (SentTo(site, 2) # {})

(* The state of an endpoint's serial handle.                               *)
Handle(ep) == IF ep = 1 THEN vesc1 ELSE vesc2

(* C21: when the process exits, no endpoint handle that init_vesc opened   *)
(* is still open, whichever way the exit was reached.                      *)
C21_OpenedHandlesClosed ==
    (pc = "exit") => (Handle(1) # "open" /\ Handle(2) # "open")

(* C22: no step calls set_duty_cycle on an endpoint whose handle cleanup   *)
(* has closed.                                                             *)
C22_NoSendAfterClose ==
    [][\A c \in NewCommands : Handle(c.ep) # "closed"]_vars

====
